---- MODULE Spec2Model ----
(***************************************************************************)
(* Station Management Interface (SMI/MDIO) PHY driver.                     *)
(*                                                                         *)
(*  - embassy-phy-driver/src/lib.rs: the StationManagement and             *)
(*    StationManagementAsync traits with their default Clause 45           *)
(*    composite read/write built from Clause 22 primitives.                *)
(*  - embassy-phy-driver/src/phy/regs.rs: register address model.          *)
(*  - embassy-stm32/src/eth/generic_phy.rs: GenericPhy (reset, address     *)
(*    discovery, init, link polling).                                      *)
(*                                                                         *)
(* Two specifications share the module:                                    *)
(*   Spec    - a GenericPhy driven by a caller over a blocking bus whose   *)
(*             primitives answer nondeterministically;                     *)
(*   SpecMmd - the default composite operations of both traits, run on two *)
(*             recording buses that answer from the same response script;  *)
(*   SpecTasks - a task running the suspending composite operations on a   *)
(*             bus that a second task also wants to use.                   *)
(***************************************************************************)
EXTENDS Integers, Naturals, Sequences, FiniteSets, TLC

VARIABLES
    phy_addr,       \* GenericPhy.phy_addr (u8)
    poll_interval,  \* GenericPhy.poll_interval, in ms
    pc,             \* position of the blocking caller
    call,           \* operation being executed / last executed
    addr,           \* phy_reset: loop variable of `for addr in 0..32`
    attempt,        \* phy_reset: completed iterations of `for _ in 0..10`
    mmd_k,          \* blocking composite operation: next primitive (1..4)
    log,            \* primitives issued on the blocking bus in this call
    last,           \* response of the last primitive on the blocking bus
    result,         \* outcome of the current / last call
    bmsr,           \* poll_link local
    advertising,    \* poll_link local
    delay_us,       \* total blocking_delay_us time spent in this call
    timer,          \* duration of the Timer polled by the last poll_link
    cleared,        \* history: addresses whose BMCR read showed reset clear
    retry,          \* history: this phy_reset follows a discovery that failed
    args,           \* composite harness: arguments of the call
    script,         \* composite harness: bus response of each primitive
    apc,            \* position of the suspending task
    a_k,            \* suspending composite operation: next primitive (1..4)
    alog,           \* primitives issued on the suspending bus
    alast,          \* response of the last primitive on the suspending bus
    aresult,        \* outcome of the suspending composite operation
    hist,           \* every primitive issued on the suspending bus, by task
    borrower,       \* holder of the `&mut` borrow of the suspending bus
    ncalls,         \* composite operations started on the suspending bus
    pending,        \* primitives issued on the suspending bus and not completed
    ctor_in,        \* constructor harness: function applied and its argument
    ctor_out        \* constructor harness: what the function produced

phyVars == <<phy_addr, poll_interval, addr, attempt, bmsr, advertising,
             delay_us, timer, cleared, retry>>
syncVars == <<pc, call, mmd_k, log, last, result>>
asyncVars == <<apc, a_k, alog, alast, aresult>>
taskVars == <<hist, borrower, ncalls, pending>>
ctorVars == <<ctor_in, ctor_out>>
mmdVars == <<args, script, taskVars, ctorVars>>
vars == <<phyVars, syncVars, asyncVars, mmdVars>>

----------------------------------------------------------------------------
(* Bounds and input sets                                                   *)

\* Cap on the reads of the unbounded known-address reset wait.
MaxPolls == 12

\* Opaque bus errors (S::Error values).
BusErrors == {"E1", "E2"}

\* Arguments given to GenericPhy::new.
NewInputs == {0, 7, 31, 32, 255}

\* Arguments given to set_poll_interval (ms).
IntervalInputs == {20, 500}

\* Values a BMCR read may return.
BmcrVals == {0, 12544, 32768, 65535}

\* Values a BMSR read may return (bit 2 = link up, bit 5 = AN done).
BmsrVals == {0, 4, 32, 36, 30765}

\* Values an ADVERTISE / LPA read may return.
AbilityVals == {0, 64, 128, 256, 384, 481}

\* Cap on the length of the history of the shared suspending bus.
MaxHist == 6

\* Composite harness inputs.
MmdPhyAddrs == {1, 31}
MmdDevads == {0, 3, 31, 32, 187, 255}
MmdRegnums == {4660, 32784}
MmdRegVals == {0, 52719}
MmdReadVals == {0, 32768, 43981}

----------------------------------------------------------------------------
(* Integer operators of the source                                         *)

RECURSIVE BitAnd(_, _)
BitAnd(a, b) ==
    IF a = 0 \/ b = 0 THEN 0
    ELSE (a % 2) * (b % 2) + 2 * BitAnd(a \div 2, b \div 2)

RECURSIVE BitOr(_, _)
BitOr(a, b) ==
    IF a = 0 THEN b
    ELSE IF b = 0 THEN a
    ELSE (IF (a % 2) + (b % 2) > 0 THEN 1 ELSE 0)
         + 2 * BitOr(a \div 2, b \div 2)

----------------------------------------------------------------------------
(* Register address model (phy/regs.rs)                                    *)

BMCR == 0
BMSR == 1
ADVERTISE == 4
\* The register after LPA, auto-negotiation expansion.
LPA_expansion == 5 + 1
LPA == 5
MMD_CONTROL == 13
\* The register after MMD_DATA, extended status.
MMD_DATA_status == 14 + 1
MMD_DATA == 14
PCS == 3

C45_new(devad, regnum) == [devad |-> devad, regnum |-> regnum]

(* lib.rs: Reg13Op and DEV_MASK *)
Reg13Op_Addr == 0 * 2^14
Reg13Op_Write == 1 * 2^14
Reg13Op_PostReadIncAddr == 2 * 2^14
Reg13Op_Read == 3 * 2^14
DEV_MASK_wide == 2^8 - 1
DEV_MASK == 31

(* generic_phy.rs: phy_consts *)
PHY_REG_WUCSR == 32784
PHY_REG_BCR_ANRST == 2^9
PHY_REG_BCR_AN == 2^12
PHY_REG_BCR_100M_fd == 2^8
PHY_REG_BCR_100M == 2^13
PHY_REG_BCR_RESET_loopback == 2^14
PHY_REG_BCR_RESET == 2^15
PHY_REG_BSR_UP_jabber == 2^1
PHY_REG_BSR_UP == 2^2
PHY_REG_BSR_ANDONE_up == 2^2
PHY_REG_BSR_ANDONE == 2^5

----------------------------------------------------------------------------
(* Bus primitives and their responses                                      *)

\* The recorded primitive operations (enum A of the mock buses).
A_Read(a, reg) == [op |-> "Read", phy_addr |-> a, reg |-> reg, val |-> 0]
A_Write(a, reg, val) == [op |-> "Write", phy_addr |-> a, reg |-> reg, val |-> val]

RespOk(v) == [ok |-> TRUE, val |-> v, err |-> "none"]
RespErr(e) == [ok |-> FALSE, val |-> 0, err |-> e]
NoResp == [ok |-> TRUE, val |-> 0, err |-> "none"]

WriteResp == {RespOk(0)} \cup {RespErr(e) : e \in BusErrors}
ReadResp(vals) == {RespOk(v) : v \in vals} \cup {RespErr(e) : e \in BusErrors}

\* LinkStatus
LinkNone == [up |-> FALSE, speed |-> 0, duplex |-> "none"]
LinkDown == [up |-> FALSE, speed |-> 0, duplex |-> "Down"]
LinkUp(speed, duplex) == [up |-> TRUE, speed |-> speed, duplex |-> duplex]

\* Result<_, S::Error> of a call, or the panic outcome.
NoResult == [kind |-> "none", val |-> 0, err |-> "none", link |-> LinkNone]
Ok(v) == [kind |-> "Ok", val |-> v, err |-> "none", link |-> LinkNone]
OkLink(l) == [kind |-> "Ok", val |-> 0, err |-> "none", link |-> l]
Err(e) == [kind |-> "Err", val |-> 0, err |-> e, link |-> LinkNone]
Panic == [kind |-> "panic", val |-> 0, err |-> "none", link |-> LinkNone]

----------------------------------------------------------------------------
(* Default composite operations (lib.rs)                                   *)
(*                                                                         *)
(* Each composite operation is a straight line of four primitives; every   *)
(* primitive but the last is followed by `?`.  xxx_mmd(.., k) is the k-th  *)
(* primitive the function issues, xxx_mmd_after(k, resp) is what the       *)
(* function does with the response of that primitive: go on to primitive   *)
(* k+1 (kind "none") or return.                                            *)

\* smi_read_mmd selecting the post-read-increment function for the access.
smi_read_mmd_postinc(a, reg, k) ==
    LET devad == BitAnd(reg.devad, DEV_MASK) IN
    CASE k = 1 -> A_Write(a, MMD_CONTROL, BitOr(Reg13Op_Addr, devad))
      [] k = 2 -> A_Write(a, MMD_DATA, reg.regnum)
      [] k = 3 -> A_Write(a, MMD_CONTROL, BitOr(Reg13Op_PostReadIncAddr, devad))
      [] k = 4 -> A_Read(a, MMD_DATA)

\* StationManagement::smi_read_mmd
smi_read_mmd(a, reg, k) ==
    LET devad == BitAnd(reg.devad, DEV_MASK) IN
    CASE k = 1 -> A_Write(a, MMD_CONTROL, BitOr(Reg13Op_Addr, devad))
      [] k = 2 -> A_Write(a, MMD_DATA, reg.regnum)
      [] k = 3 -> A_Write(a, MMD_CONTROL, BitOr(Reg13Op_Read, devad))
      [] k = 4 -> A_Read(a, MMD_DATA)

smi_read_mmd_after(k, resp) ==
    IF k < 4
    THEN (IF resp.ok THEN NoResult ELSE Err(resp.err))
    ELSE (IF resp.ok THEN Ok(resp.val) ELSE Err(resp.err))

\* smi_write_mmd selecting the read function for the access.
smi_write_mmd_readop(a, reg, reg_val, k) ==
    LET devad == BitAnd(reg.devad, DEV_MASK) IN
    CASE k = 1 -> A_Write(a, MMD_CONTROL, BitOr(Reg13Op_Addr, devad))
      [] k = 2 -> A_Write(a, MMD_DATA, reg.regnum)
      [] k = 3 -> A_Write(a, MMD_CONTROL, BitOr(Reg13Op_Read, devad))
      [] k = 4 -> A_Write(a, MMD_DATA, reg_val)

\* StationManagement::smi_write_mmd
smi_write_mmd(a, reg, reg_val, k) ==
    LET devad == BitAnd(reg.devad, DEV_MASK) IN
    CASE k = 1 -> A_Write(a, MMD_CONTROL, BitOr(Reg13Op_Addr, devad))
      [] k = 2 -> A_Write(a, MMD_DATA, reg.regnum)
      [] k = 3 -> A_Write(a, MMD_CONTROL, BitOr(Reg13Op_Write, devad))
      [] k = 4 -> A_Write(a, MMD_DATA, reg_val)

\* smi_write_mmd without `?` on the write of the register number.
smi_write_mmd_after_unchecked(k, resp) ==
    IF k < 4
    THEN (IF resp.ok \/ k = 2 THEN NoResult ELSE Err(resp.err))
    ELSE (IF resp.ok THEN Ok(0) ELSE Err(resp.err))

smi_write_mmd_after(k, resp) ==
    IF k < 4
    THEN (IF resp.ok THEN NoResult ELSE Err(resp.err))
    ELSE (IF resp.ok THEN Ok(0) ELSE Err(resp.err))

\* StationManagementAsync::smi_read_mmd
async_smi_read_mmd(a, reg, k) ==
    LET devad == BitAnd(reg.devad, DEV_MASK) IN
    CASE k = 1 -> A_Write(a, MMD_CONTROL, BitOr(Reg13Op_Addr, devad))
      [] k = 2 -> A_Write(a, MMD_DATA, reg.regnum)
      [] k = 3 -> A_Write(a, MMD_CONTROL, BitOr(Reg13Op_Read, devad))
      [] k = 4 -> A_Read(a, MMD_DATA)

\* The suspending smi_read_mmd returning after its third primitive.
async_smi_read_mmd_after_early(k, resp) ==
    IF k < 3
    THEN (IF resp.ok THEN NoResult ELSE Err(resp.err))
    ELSE (IF resp.ok THEN Ok(resp.val) ELSE Err(resp.err))

async_smi_read_mmd_after(k, resp) ==
    IF k < 4
    THEN (IF resp.ok THEN NoResult ELSE Err(resp.err))
    ELSE (IF resp.ok THEN Ok(resp.val) ELSE Err(resp.err))

\* The suspending smi_write_mmd with register number and value exchanged.
async_smi_write_mmd_swapped(a, reg, reg_val, k) ==
    LET devad == BitAnd(reg.devad, DEV_MASK) IN
    CASE k = 1 -> A_Write(a, MMD_CONTROL, BitOr(Reg13Op_Addr, devad))
      [] k = 2 -> A_Write(a, MMD_DATA, reg_val)
      [] k = 3 -> A_Write(a, MMD_CONTROL, BitOr(Reg13Op_Write, devad))
      [] k = 4 -> A_Write(a, MMD_DATA, reg.regnum)

\* StationManagementAsync::smi_write_mmd
async_smi_write_mmd(a, reg, reg_val, k) ==
    LET devad == BitAnd(reg.devad, DEV_MASK) IN
    CASE k = 1 -> A_Write(a, MMD_CONTROL, BitOr(Reg13Op_Addr, devad))
      [] k = 2 -> A_Write(a, MMD_DATA, reg.regnum)
      [] k = 3 -> A_Write(a, MMD_CONTROL, BitOr(Reg13Op_Write, devad))
      [] k = 4 -> A_Write(a, MMD_DATA, reg_val)

async_smi_write_mmd_after(k, resp) ==
    IF k < 4
    THEN (IF resp.ok THEN NoResult ELSE Err(resp.err))
    ELSE (IF resp.ok THEN Ok(0) ELSE Err(resp.err))

----------------------------------------------------------------------------
(* GenericPhy construction (generic_phy.rs)                                *)

\* GenericPhy::new asserting phy_addr <= 32.
New_inclusive(a) ==
    IF a <= 32
    THEN [ok |-> TRUE, phy_addr |-> a, poll_interval |-> 500]
    ELSE [ok |-> FALSE, phy_addr |-> a, poll_interval |-> 0]

\* GenericPhy::new: assert!(phy_addr < 32)
New(a) ==
    IF a < 32
    THEN [ok |-> TRUE, phy_addr |-> a, poll_interval |-> 500]
    ELSE [ok |-> FALSE, phy_addr |-> a, poll_interval |-> 0]

\* GenericPhy::new_auto
NewAuto == [ok |-> TRUE, phy_addr |-> 255, poll_interval |-> 500]

Constructed == {New(a) : a \in NewInputs} \cup {NewAuto}

\* Nothing constructed by the constructor harness yet.
NotBuilt == [kind |-> "none", reg |-> 0, phy_addr |-> 0, poll_interval |-> 0]

\* Harness variables at rest.
MmdIdle ==
    /\ args = [kind |-> "none", phy_addr |-> 0, reg |-> C45_new(0, 0), reg_val |-> 0]
    /\ script = <<>>
    /\ apc = "idle"
    /\ a_k = 0
    /\ alog = <<>>
    /\ alast = NoResp
    /\ aresult = NoResult
    /\ hist = <<>>
    /\ borrower = "none"
    /\ ncalls = 0
    /\ pending = 0
    /\ ctor_in = [fn |-> "none", n |-> 0]
    /\ ctor_out = NotBuilt

Init ==
    /\ \E g \in Constructed :
          /\ g.ok
          /\ phy_addr = g.phy_addr
          /\ poll_interval = g.poll_interval
    /\ pc = "idle"
    /\ call = "none"
    /\ addr = 0
    /\ attempt = 0
    /\ mmd_k = 0
    /\ log = <<>>
    /\ last = NoResp
    /\ result = NoResult
    /\ bmsr = 0
    /\ advertising = 0
    /\ delay_us = 0
    /\ timer = 0
    /\ cleared = {}
    /\ retry = FALSE
    /\ MmdIdle

----------------------------------------------------------------------------
(* Constructors: C22::vendor_specific, GenericPhy::new, GenericPhy::new_auto *)

\* Every value of a `u8` argument.
U8 == 0..255

\* vendor_specific accepting N = 32 as well.
vendor_specific_inclusive(N) ==
    IF N > 15 /\ N < 32 + 1
    THEN [kind |-> "C22", reg |-> N, phy_addr |-> 0, poll_interval |-> 0]
    ELSE [kind |-> "panic", reg |-> 0, phy_addr |-> 0, poll_interval |-> 0]

\* `assert!(N > 0x0f && N < 0x20, ..); C22(N)`
vendor_specific(N) ==
    IF N > 15 /\ N < 32
    THEN [kind |-> "C22", reg |-> N, phy_addr |-> 0, poll_interval |-> 0]
    ELSE [kind |-> "panic", reg |-> 0, phy_addr |-> 0, poll_interval |-> 0]

\* What the caller of a GenericPhy constructor gets.
Built(g) ==
    IF g.ok
    THEN [kind |-> "GenericPhy", reg |-> 0, phy_addr |-> g.phy_addr,
          poll_interval |-> g.poll_interval]
    ELSE [kind |-> "panic", reg |-> 0, phy_addr |-> 0, poll_interval |-> 0]

\* One function is applied to one argument.
CtorReady == ctor_in.fn = "none"

\* C22::vendor_specific::<N>()
CallVendorSpecific ==
    /\ CtorReady
    /\ \E N \in U8 :
          /\ ctor_in' = [fn |-> "vendor_specific", n |-> N]
          /\ ctor_out' = vendor_specific(N)
    /\ UNCHANGED <<phyVars, syncVars, asyncVars, args, script, taskVars>>

\* GenericPhy::new(phy_addr)
CallNew ==
    /\ CtorReady
    /\ \E a \in U8 :
          /\ ctor_in' = [fn |-> "new", n |-> a]
          /\ ctor_out' = Built(New(a))
    /\ UNCHANGED <<phyVars, syncVars, asyncVars, args, script, taskVars>>

\* GenericPhy::new_auto()
CallNewAuto ==
    /\ CtorReady
    /\ ctor_in' = [fn |-> "new_auto", n |-> 0]
    /\ ctor_out' = Built(NewAuto)
    /\ UNCHANGED <<phyVars, syncVars, asyncVars, args, script, taskVars>>

CtorInit == Init /\ phy_addr = NewAuto.phy_addr

CtorNext ==
    \/ CallVendorSpecific
    \/ CallNew
    \/ CallNewAuto

SpecCtor == CtorInit /\ [][CtorNext]_vars

----------------------------------------------------------------------------
(* GenericPhy::phy_reset                                                   *)

\* `for addr in 0..=32`
ScanAddrs_inclusive == 32 + 1

\* `for addr in 0..32`
ScanAddrs == 32

\* `for _ in 0..10` with nine iterations.
ScanAttempts_nine == 10 - 1

\* `for _ in 0..10`
ScanAttempts == 10

\* The reset test comparing the whole register value.
ResetBitSet_whole(val) == val = PHY_REG_BCR_RESET

\* `.. & PHY_REG_BCR_RESET == PHY_REG_BCR_RESET`
ResetBitSet(val) == BitAnd(val, PHY_REG_BCR_RESET) = PHY_REG_BCR_RESET

\* Entry of any operation: a fresh call with fresh locals, on a bus whose
\* record is cleared.
\* A call that keeps the loop variable of the call before it.
Enter_resuming(name, at) ==
    /\ pc = "idle"
    /\ call' = name
    /\ pc' = at
    /\ log' = <<>>
    /\ last' = NoResp
    /\ result' = NoResult
    /\ delay_us' = 0
    /\ cleared' = {}
    /\ retry' = (/\ name = "phy_reset" /\ call = "phy_reset"
                 /\ result.kind = "Err" /\ phy_addr = 255)
    /\ addr' = addr
    /\ attempt' = 0
    /\ bmsr' = 0
    /\ advertising' = 0

Enter(name, at) ==
    /\ pc = "idle"
    /\ call' = name
    /\ pc' = at
    /\ log' = <<>>
    /\ last' = NoResp
    /\ result' = NoResult
    /\ delay_us' = 0
    /\ cleared' = {}
    /\ retry' = (/\ name = "phy_reset" /\ call = "phy_reset"
                 /\ result.kind = "Err" /\ phy_addr = 255)
    /\ addr' = 0
    /\ attempt' = 0
    /\ bmsr' = 0
    /\ advertising' = 0

\* phy_reset scanning for the address whatever address is stored.
CallPhyReset_rescan ==
    /\ Enter("phy_reset", "scan_write")
    /\ mmd_k' = 0
    /\ timer' = 0
    /\ UNCHANGED <<phy_addr, poll_interval>>
    /\ UNCHANGED <<asyncVars, mmdVars>>

\* `if self.phy_addr == 0xFF { for addr in 0..32 {` or the known-address path
CallPhyReset ==
    /\ Enter("phy_reset", IF phy_addr = 255 THEN "scan_write" ELSE "reset_write")
    /\ mmd_k' = 0
    /\ timer' = 0
    /\ UNCHANGED <<phy_addr, poll_interval>>
    /\ UNCHANGED <<asyncVars, mmdVars>>

\* The discovery write with its error dropped instead of propagated.
ScanWrite_dropped ==
    /\ pc = "scan_write"
    /\ \E resp \in WriteResp :
          /\ log' = Append(log, A_Write(addr, BMCR, PHY_REG_BCR_RESET))
          /\ last' = resp
          /\ attempt' = 0
          /\ pc' = "scan_read"
          /\ result' = result
    /\ UNCHANGED <<phy_addr, poll_interval, call, addr, mmd_k, bmsr,
                   advertising, delay_us, timer, cleared>>
    /\ UNCHANGED <<retry, asyncVars, mmdVars>>

\* sm.smi_write(addr, C22::BMCR, PHY_REG_BCR_RESET)?
ScanWrite ==
    /\ pc = "scan_write"
    /\ \E resp \in WriteResp :
          /\ log' = Append(log, A_Write(addr, BMCR, PHY_REG_BCR_RESET))
          /\ last' = resp
          /\ IF resp.ok
             THEN /\ attempt' = 0
                  /\ pc' = "scan_read"
                  /\ result' = result
             ELSE /\ attempt' = attempt
                  /\ pc' = "idle"
                  /\ result' = Err(resp.err)
    /\ UNCHANGED <<phy_addr, poll_interval, call, addr, mmd_k, bmsr,
                   advertising, delay_us, timer, cleared>>
    /\ UNCHANGED <<retry, asyncVars, mmdVars>>

\* blocking_delay_us with a 1 ms argument.
ScanDelayUs_short == 10 * 100

\* `blocking_delay_us(10000)`
ScanDelayUs == 10000

\* One iteration of `for _ in 0..10`, with the loop exits that follow it.
ScanRead ==
    /\ pc = "scan_read"
    /\ \E resp \in ReadResp(BmcrVals) :
          /\ log' = Append(log, A_Read(addr, BMCR))
          /\ last' = resp
          /\ IF ~resp.ok
             THEN /\ result' = Err(resp.err)
                  /\ pc' = "idle"
                  /\ UNCHANGED <<phy_addr, addr, attempt, delay_us, cleared>>
             ELSE IF ~ResetBitSet(resp.val)
             THEN /\ phy_addr' = addr
                  /\ result' = Ok(0)
                  /\ pc' = "idle"
                  /\ cleared' = cleared \cup {addr}
                  /\ UNCHANGED <<addr, attempt, delay_us>>
             ELSE /\ delay_us' = delay_us + ScanDelayUs
                  /\ UNCHANGED <<phy_addr, cleared>>
                  /\ IF attempt + 1 < ScanAttempts
                     THEN /\ attempt' = attempt + 1
                          /\ addr' = addr
                          /\ pc' = "scan_read"
                          /\ result' = result
                     ELSE IF addr + 1 < ScanAddrs
                     THEN /\ attempt' = 0
                          /\ addr' = addr + 1
                          /\ pc' = "scan_write"
                          /\ result' = result
                     ELSE /\ attempt' = attempt + 1
                          /\ addr' = addr
                          /\ pc' = "panicked"
                          /\ result' = Panic
    /\ UNCHANGED <<poll_interval, call, mmd_k, bmsr, advertising, timer>>
    /\ UNCHANGED <<retry, asyncVars, mmdVars>>

\* sm.smi_write(self.phy_addr, C22::BMCR, PHY_REG_BCR_RESET)?
ResetWrite ==
    /\ pc = "reset_write"
    /\ \E resp \in WriteResp :
          /\ log' = Append(log, A_Write(phy_addr, BMCR, PHY_REG_BCR_RESET))
          /\ last' = resp
          /\ IF resp.ok
             THEN /\ pc' = "reset_poll"
                  /\ result' = result
             ELSE /\ pc' = "idle"
                  /\ result' = Err(resp.err)
    /\ UNCHANGED <<phyVars, call, mmd_k>>
    /\ UNCHANGED <<asyncVars, mmdVars>>

\* The known-address wait giving up with Ok after its third read.
ResetPoll_bounded ==
    /\ pc = "reset_poll"
    /\ \E resp \in ReadResp(BmcrVals) :
          /\ log' = Append(log, A_Read(phy_addr, BMCR))
          /\ last' = resp
          /\ IF ~resp.ok
             THEN /\ result' = Err(resp.err)
                  /\ pc' = "idle"
                  /\ cleared' = cleared
             ELSE IF ResetBitSet(resp.val) /\ Len(log) < 3
             THEN /\ result' = result
                  /\ pc' = "reset_poll"
                  /\ cleared' = cleared
             ELSE /\ result' = Ok(0)
                  /\ pc' = "idle"
                  /\ cleared' = IF ResetBitSet(resp.val) THEN cleared
                                ELSE cleared \cup {phy_addr}
    /\ UNCHANGED <<phy_addr, poll_interval, addr, attempt, bmsr, advertising,
                   delay_us, timer, call, mmd_k>>
    /\ UNCHANGED <<retry, asyncVars, mmdVars>>

\* while sm.smi_read(self.phy_addr, C22::BMCR)? & RESET == RESET {}
ResetPoll ==
    /\ pc = "reset_poll"
    /\ \E resp \in ReadResp(BmcrVals) :
          /\ log' = Append(log, A_Read(phy_addr, BMCR))
          /\ last' = resp
          /\ IF ~resp.ok
             THEN /\ result' = Err(resp.err)
                  /\ pc' = "idle"
                  /\ cleared' = cleared
             ELSE IF ResetBitSet(resp.val)
             THEN /\ Len(log) < MaxPolls
                  /\ result' = result
                  /\ pc' = "reset_poll"
                  /\ cleared' = cleared
             ELSE /\ result' = Ok(0)
                  /\ pc' = "idle"
                  /\ cleared' = cleared \cup {phy_addr}
    /\ UNCHANGED <<phy_addr, poll_interval, addr, attempt, bmsr, advertising,
                   delay_us, timer, call, mmd_k>>
    /\ UNCHANGED <<retry, asyncVars, mmdVars>>

----------------------------------------------------------------------------
(* GenericPhy::phy_init                                                    *)

CallPhyInit ==
    /\ Enter("phy_init", "init_mmd")
    /\ mmd_k' = 1
    /\ timer' = 0
    /\ UNCHANGED <<phy_addr, poll_interval>>
    /\ UNCHANGED <<asyncVars, mmdVars>>

\* The composite write of phy_init with its error dropped.
InitMmd_dropped ==
    /\ pc = "init_mmd"
    /\ \E resp \in WriteResp :
          LET r == smi_write_mmd_after(mmd_k, resp) IN
          /\ log' = Append(log, smi_write_mmd(phy_addr,
                                    C45_new(PCS, PHY_REG_WUCSR), 0, mmd_k))
          /\ last' = resp
          /\ result' = result
          /\ IF r.kind = "none"
             THEN mmd_k' = mmd_k + 1 /\ pc' = "init_mmd"
             ELSE mmd_k' = mmd_k /\ pc' = "init_bmcr"
    /\ UNCHANGED <<phyVars, call>>
    /\ UNCHANGED <<asyncVars, mmdVars>>

\* sm.smi_write_mmd(self.phy_addr, C45::new(Mmd::PCS, PHY_REG_WUCSR), 0)?
InitMmd ==
    /\ pc = "init_mmd"
    /\ \E resp \in WriteResp :
          LET r == smi_write_mmd_after(mmd_k, resp) IN
          /\ log' = Append(log, smi_write_mmd(phy_addr,
                                    C45_new(PCS, PHY_REG_WUCSR), 0, mmd_k))
          /\ last' = resp
          /\ CASE r.kind = "none" -> /\ mmd_k' = mmd_k + 1
                                     /\ pc' = "init_mmd"
                                     /\ result' = result
               [] r.kind = "Err"  -> /\ mmd_k' = mmd_k
                                     /\ pc' = "idle"
                                     /\ result' = Err(r.err)
               [] r.kind = "Ok"   -> /\ mmd_k' = mmd_k
                                     /\ pc' = "init_bmcr"
                                     /\ result' = result
    /\ UNCHANGED <<phyVars, call>>
    /\ UNCHANGED <<asyncVars, mmdVars>>

\* sm.smi_write(self.phy_addr, C22::BMCR, AN | ANRST | 100M)
InitBmcr ==
    /\ pc = "init_bmcr"
    /\ \E resp \in WriteResp :
          /\ log' = Append(log, A_Write(phy_addr, BMCR,
                        BitOr(BitOr(PHY_REG_BCR_AN, PHY_REG_BCR_ANRST),
                              PHY_REG_BCR_100M)))
          /\ last' = resp
          /\ result' = IF resp.ok THEN Ok(0) ELSE Err(resp.err)
          /\ pc' = "idle"
    /\ UNCHANGED <<phyVars, call, mmd_k>>
    /\ UNCHANGED <<asyncVars, mmdVars>>

----------------------------------------------------------------------------
(* GenericPhy::poll_link                                                   *)

\* The decode testing 100 Mbit half duplex before 100 Mbit full duplex.
Decode_halffirst(nego) ==
    IF BitAnd(nego, 128) # 0 THEN LinkUp(100, "Half")
    ELSE IF BitAnd(nego, 256) # 0 THEN LinkUp(100, "Full")
    ELSE IF BitAnd(nego, 64) # 0 THEN LinkUp(10, "Full")
    ELSE LinkUp(10, "Half")

\* The priority decode of `nego`.
Decode(nego) ==
    IF BitAnd(nego, 256) # 0 THEN LinkUp(100, "Full")
    ELSE IF BitAnd(nego, 128) # 0 THEN LinkUp(100, "Half")
    ELSE IF BitAnd(nego, 64) # 0 THEN LinkUp(10, "Full")
    ELSE LinkUp(10, "Half")

\* poll_link shortening the stored interval on entry.
CallPollLink_retuned ==
    /\ Enter("poll_link", "poll_bmsr")
    /\ timer' = poll_interval
    /\ mmd_k' = 0
    /\ poll_interval' = 20
    /\ UNCHANGED phy_addr
    /\ UNCHANGED <<asyncVars, mmdVars>>

\* poll_link polling a timer of the default interval.
CallPollLink_default ==
    /\ Enter("poll_link", "poll_bmsr")
    /\ timer' = NewAuto.poll_interval
    /\ mmd_k' = 0
    /\ UNCHANGED <<phy_addr, poll_interval>>
    /\ UNCHANGED <<asyncVars, mmdVars>>

\* let _ = Timer::after(self.poll_interval).poll_unpin(cx);
CallPollLink ==
    /\ Enter("poll_link", "poll_bmsr")
    /\ timer' = poll_interval
    /\ mmd_k' = 0
    /\ UNCHANGED <<phy_addr, poll_interval>>
    /\ UNCHANGED <<asyncVars, mmdVars>>

\* let bmsr = sm.smi_read(self.phy_addr, C22::BMSR)?; and the two Down exits
PollBmsr ==
    /\ pc = "poll_bmsr"
    /\ \E resp \in ReadResp(BmsrVals) :
          /\ log' = Append(log, A_Read(phy_addr, BMSR))
          /\ last' = resp
          /\ IF ~resp.ok
             THEN /\ result' = Err(resp.err)
                  /\ pc' = "idle"
                  /\ bmsr' = bmsr
             ELSE /\ bmsr' = resp.val
                  /\ IF BitAnd(resp.val, PHY_REG_BSR_ANDONE) = 0
                     THEN /\ result' = OkLink(LinkDown)
                          /\ pc' = "idle"
                     ELSE IF BitAnd(resp.val, PHY_REG_BSR_UP) = 0
                     THEN /\ result' = OkLink(LinkDown)
                          /\ pc' = "idle"
                     ELSE /\ result' = result
                          /\ pc' = "poll_advertise"
    /\ UNCHANGED <<phy_addr, poll_interval, addr, attempt, advertising,
                   delay_us, timer, cleared, call, mmd_k>>
    /\ UNCHANGED <<retry, asyncVars, mmdVars>>

\* The ADVERTISE read with a failure replaced by the default value.
PollAdvertise_defaulted ==
    /\ pc = "poll_advertise"
    /\ \E resp \in ReadResp(AbilityVals) :
          /\ log' = Append(log, A_Read(phy_addr, ADVERTISE))
          /\ last' = resp
          /\ advertising' = IF resp.ok THEN resp.val ELSE 0
          /\ result' = result
          /\ pc' = "poll_lpa"
    /\ UNCHANGED <<phy_addr, poll_interval, addr, attempt, bmsr,
                   delay_us, timer, cleared, call, mmd_k>>
    /\ UNCHANGED <<retry, asyncVars, mmdVars>>

\* let advertising = sm.smi_read(self.phy_addr, C22::ADVERTISE)?;
PollAdvertise ==
    /\ pc = "poll_advertise"
    /\ \E resp \in ReadResp(AbilityVals) :
          /\ log' = Append(log, A_Read(phy_addr, ADVERTISE))
          /\ last' = resp
          /\ IF ~resp.ok
             THEN /\ result' = Err(resp.err)
                  /\ pc' = "idle"
                  /\ advertising' = advertising
             ELSE /\ advertising' = resp.val
                  /\ result' = result
                  /\ pc' = "poll_lpa"
    /\ UNCHANGED <<phy_addr, poll_interval, addr, attempt, bmsr,
                   delay_us, timer, cleared, call, mmd_k>>
    /\ UNCHANGED <<retry, asyncVars, mmdVars>>

\* A technology counts when either end advertises it.
Nego_either(adv, lpa) == BitOr(adv, lpa)

\* `let nego = advertising & lpa;`
Nego(adv, lpa) == BitAnd(adv, lpa)

\* let lpa = sm.smi_read(self.phy_addr, C22::LPA)?; and the decode
PollLpa ==
    /\ pc = "poll_lpa"
    /\ \E resp \in ReadResp(AbilityVals) :
          /\ log' = Append(log, A_Read(phy_addr, LPA))
          /\ last' = resp
          /\ result' = IF ~resp.ok
                       THEN Err(resp.err)
                       ELSE OkLink(Decode(Nego(advertising, resp.val)))
          /\ pc' = "idle"
    /\ UNCHANGED <<phyVars, call, mmd_k>>
    /\ UNCHANGED <<asyncVars, mmdVars>>

\* GenericPhy::set_poll_interval
SetPollInterval ==
    /\ \E d \in IntervalInputs : poll_interval' = d
    /\ Enter("set_poll_interval", "idle")
    /\ mmd_k' = 0
    /\ timer' = 0
    /\ UNCHANGED phy_addr
    /\ UNCHANGED <<asyncVars, mmdVars>>

Next ==
    \/ CallPhyReset
    \/ ScanWrite
    \/ ScanRead
    \/ ResetWrite
    \/ ResetPoll
    \/ CallPhyInit
    \/ InitMmd
    \/ InitBmcr
    \/ CallPollLink
    \/ PollBmsr
    \/ PollAdvertise
    \/ PollLpa
    \/ SetPollInterval

Spec == Init /\ [][Next]_vars

\* phy_reset is straight-line blocking code: once called, its discovery loop
\* keeps issuing the next primitive, and each primitive returns.
SpecFair == Spec /\ WF_vars(ScanWrite) /\ WF_vars(ScanRead)

----------------------------------------------------------------------------
(* The default composite operations on recording buses                     *)
(*                                                                         *)
(* A caller invokes the same composite operation, with the same arguments, *)
(* on a blocking bus (StationManagement) and on a suspending one           *)
(* (StationManagementAsync); primitive k of either bus answers script[k].  *)
(* Each primitive of the suspending operation is an await, so the two runs *)
(* interleave freely.                                                      *)

Scripts(lastResp) ==
    {<<r1, r2, r3, r4>> : r1 \in WriteResp, r2 \in WriteResp,
                          r3 \in WriteResp, r4 \in lastResp}

\* As in read_test / write_test, a recording bus serves one composite call.
MmdReady ==
    /\ pc = "idle"
    /\ apc = "idle"
    /\ call = "none"

MmdEnter(kind, a, reg, reg_val, sc) ==
    /\ args' = [kind |-> kind, phy_addr |-> a, reg |-> reg, reg_val |-> reg_val]
    /\ script' = sc
    /\ call' = kind
    /\ pc' = "mmd"
    /\ mmd_k' = 1
    /\ log' = <<>>
    /\ last' = NoResp
    /\ result' = NoResult
    /\ apc' = "mmd"
    /\ a_k' = 1
    /\ alog' = <<>>
    /\ alast' = NoResp
    /\ aresult' = NoResult
    /\ UNCHANGED <<phyVars, taskVars, ctorVars>>

\* mdiobus.smi_read_mmd(phy_addr, C45::new(Mmd(d), regnum))
CallReadMmd ==
    /\ MmdReady
    /\ \E a \in MmdPhyAddrs, d \in MmdDevads, rn \in MmdRegnums,
          sc \in Scripts(ReadResp(MmdReadVals)) :
             MmdEnter("smi_read_mmd", a, C45_new(d, rn), 0, sc)

\* mdiobus.smi_write_mmd(phy_addr, C45::new(Mmd(d), regnum), reg_val)
CallWriteMmd ==
    /\ MmdReady
    /\ \E a \in MmdPhyAddrs, d \in MmdDevads, rn \in MmdRegnums,
          v \in MmdRegVals, sc \in Scripts(WriteResp) :
             MmdEnter("smi_write_mmd", a, C45_new(d, rn), v, sc)

\* One primitive of StationManagement::smi_read_mmd
SyncReadStep ==
    /\ pc = "mmd"
    /\ args.kind = "smi_read_mmd"
    /\ LET resp == script[mmd_k]
           r == smi_read_mmd_after(mmd_k, resp) IN
       /\ log' = Append(log, smi_read_mmd(args.phy_addr, args.reg, mmd_k))
       /\ last' = resp
       /\ result' = r
       /\ IF r.kind = "none"
          THEN mmd_k' = mmd_k + 1 /\ pc' = "mmd"
          ELSE mmd_k' = mmd_k /\ pc' = "idle"
    /\ UNCHANGED <<phyVars, call, asyncVars, mmdVars>>

\* One primitive of StationManagement::smi_write_mmd
SyncWriteStep ==
    /\ pc = "mmd"
    /\ args.kind = "smi_write_mmd"
    /\ LET resp == script[mmd_k]
           r == smi_write_mmd_after(mmd_k, resp) IN
       /\ log' = Append(log, smi_write_mmd(args.phy_addr, args.reg,
                                           args.reg_val, mmd_k))
       /\ last' = resp
       /\ result' = r
       /\ IF r.kind = "none"
          THEN mmd_k' = mmd_k + 1 /\ pc' = "mmd"
          ELSE mmd_k' = mmd_k /\ pc' = "idle"
    /\ UNCHANGED <<phyVars, call, asyncVars, mmdVars>>

\* One primitive (one await) of StationManagementAsync::smi_read_mmd
AsyncReadStep ==
    /\ apc = "mmd"
    /\ args.kind = "smi_read_mmd"
    /\ LET resp == script[a_k]
           r == async_smi_read_mmd_after(a_k, resp) IN
       /\ alog' = Append(alog, async_smi_read_mmd(args.phy_addr, args.reg, a_k))
       /\ alast' = resp
       /\ aresult' = r
       /\ IF r.kind = "none"
          THEN a_k' = a_k + 1 /\ apc' = "mmd"
          ELSE a_k' = a_k /\ apc' = "idle"
    /\ UNCHANGED <<phyVars, syncVars, mmdVars>>

\* One primitive (one await) of StationManagementAsync::smi_write_mmd
AsyncWriteStep ==
    /\ apc = "mmd"
    /\ args.kind = "smi_write_mmd"
    /\ LET resp == script[a_k]
           r == async_smi_write_mmd_after(a_k, resp) IN
       /\ alog' = Append(alog, async_smi_write_mmd(args.phy_addr, args.reg,
                                                   args.reg_val, a_k))
       /\ alast' = resp
       /\ aresult' = r
       /\ IF r.kind = "none"
          THEN a_k' = a_k + 1 /\ apc' = "mmd"
          ELSE a_k' = a_k /\ apc' = "idle"
    /\ UNCHANGED <<phyVars, syncVars, mmdVars>>

MmdInit == Init /\ phy_addr = NewAuto.phy_addr

MmdNext ==
    \/ CallReadMmd
    \/ CallWriteMmd
    \/ SyncReadStep
    \/ SyncWriteStep
    \/ AsyncReadStep
    \/ AsyncWriteStep

SpecMmd == MmdInit /\ [][MmdNext]_vars

----------------------------------------------------------------------------
(* The suspending composite operations on a bus wanted by two tasks        *)
(*                                                                         *)
(* smi_read_mmd / smi_write_mmd of StationManagementAsync take `&mut self` *)
(* and return a future that captures it (`async move`): the bus stays      *)
(* mutably borrowed from the call until the future completes or is         *)
(* dropped.  The primitives take `&mut self` as well, so a second task can *)
(* issue one only while the bus is not borrowed.  Every primitive is an    *)
(* await, at which the scheduler may run the second task, or at which the  *)
(* owner of the future may drop it.                                        *)

TaskPhyAddr == 1
TaskReg == C45_new(187, 4660)
TaskRegVal == 43981

\* Primitives the second task issues on the same phy address.
OtherOps ==
    {A_Write(TaskPhyAddr, MMD_CONTROL, 16385), A_Read(TaskPhyAddr, MMD_DATA)}

HistEntry(task, n, op) == [task |-> task, call |-> n, op |-> op]

\* The bus as if the operations took `&self`.
BusFree_shared == TRUE

\* `&mut self`: no live borrow of the bus.
BusFree == borrower = "none"

\* Responses of the three selecting writes and of the last primitive.
TaskScripts(lastResp) ==
    {<<r1, r2, r3, r4>> : r1 \in {RespOk(0), RespErr("E1")},
                          r2 \in {RespOk(0), RespErr("E1")},
                          r3 \in {RespOk(0), RespErr("E1")}, r4 \in lastResp}

\* The same call is made on a blocking bus by the caller and, as a future,
\* on the suspending bus by the first task.
TaskEnter(kind, sc) ==
    /\ args' = [kind |-> kind, phy_addr |-> TaskPhyAddr, reg |-> TaskReg,
                reg_val |-> TaskRegVal]
    /\ script' = sc
    /\ call' = kind
    /\ pc' = "mmd"
    /\ mmd_k' = 1
    /\ log' = <<>>
    /\ last' = NoResp
    /\ result' = NoResult
    /\ apc' = "mmd"
    /\ a_k' = 1
    /\ alog' = <<>>
    /\ alast' = NoResp
    /\ aresult' = NoResult
    /\ borrower' = "composite"
    /\ ncalls' = ncalls + 1
    /\ hist' = hist
    /\ pending' = 0
    /\ UNCHANGED <<phyVars, ctorVars>>

TaskReady ==
    /\ BusFree
    /\ pc = "idle"
    /\ apc = "idle"
    /\ Len(hist) + 4 <= MaxHist

\* bus.smi_read_mmd(phy_addr, reg) by the first task
TaskCallReadMmd ==
    /\ TaskReady
    /\ \E sc \in TaskScripts({RespOk(43981), RespErr("E1")}) :
          TaskEnter("smi_read_mmd", sc)

\* bus.smi_write_mmd(phy_addr, reg, reg_val) by the first task
TaskCallWriteMmd ==
    /\ TaskReady
    /\ \E sc \in TaskScripts({RespOk(0), RespErr("E1")}) :
          TaskEnter("smi_write_mmd", sc)

\* The pending future issues a primitive and suspends at its `.await`.
TaskIssue(op) ==
    /\ alog' = Append(alog, op)
    /\ hist' = Append(hist, HistEntry("composite", ncalls, op))
    /\ pending' = pending + 1
    /\ apc' = "await"
    /\ UNCHANGED <<phyVars, syncVars, args, script, a_k, alast, aresult,
                   borrower, ncalls, ctorVars>>

\* The next primitive is issued without awaiting the one before.
TaskReadStep_pipelined ==
    /\ apc \in {"mmd", "await"}
    /\ a_k < 4
    /\ args.kind = "smi_read_mmd"
    /\ alog' = Append(alog, async_smi_read_mmd(args.phy_addr, args.reg, a_k))
    /\ hist' = Append(hist, HistEntry("composite", ncalls, alog'[Len(alog')]))
    /\ pending' = pending + 1
    /\ a_k' = a_k + 1
    /\ apc' = "mmd"
    /\ UNCHANGED <<phyVars, syncVars, args, script, alast, aresult,
                   borrower, ncalls, ctorVars>>

\* `self.smi_write(..)` / `self.smi_read(..)` of
\* StationManagementAsync::smi_read_mmd, up to its `.await`
TaskReadStep ==
    /\ apc = "mmd"
    /\ args.kind = "smi_read_mmd"
    /\ TaskIssue(async_smi_read_mmd(args.phy_addr, args.reg, a_k))

\* `self.smi_write(..)` of StationManagementAsync::smi_write_mmd, up to its
\* `.await`
TaskWriteStep ==
    /\ apc = "mmd"
    /\ args.kind = "smi_write_mmd"
    /\ TaskIssue(async_smi_write_mmd(args.phy_addr, args.reg, args.reg_val, a_k))

\* The awaited primitive completes: `.await?` or the final `.await`.
TaskComplete ==
    /\ apc = "await"
    /\ LET r == IF args.kind = "smi_read_mmd"
                THEN async_smi_read_mmd_after(a_k, script[a_k])
                ELSE async_smi_write_mmd_after(a_k, script[a_k]) IN
       /\ alast' = script[a_k]
       /\ aresult' = r
       /\ pending' = pending - 1
       /\ IF r.kind = "none"
          THEN a_k' = a_k + 1 /\ apc' = "mmd" /\ borrower' = borrower
          ELSE a_k' = a_k /\ apc' = "idle" /\ borrower' = "none"
    /\ UNCHANGED <<phyVars, syncVars, args, script, alog, hist, ncalls, ctorVars>>

\* The future is dropped while suspended at the `.await` of a primitive.
TaskDrop ==
    /\ apc = "await"
    /\ apc' = "idle"
    /\ aresult' = [kind |-> "dropped", val |-> 0, err |-> "none", link |-> LinkNone]
    /\ borrower' = "none"
    /\ pending' = 0
    /\ UNCHANGED <<phyVars, syncVars, args, script, a_k, alog, alast, hist, ncalls,
                   ctorVars>>

\* bus.smi_read(..) / bus.smi_write(..) by the second task
OtherPrimitive ==
    /\ BusFree
    /\ Len(hist) < MaxHist
    /\ \E op \in OtherOps : hist' = Append(hist, HistEntry("other", 0, op))
    /\ UNCHANGED <<phyVars, syncVars, asyncVars, args, script, borrower, ncalls,
                   pending, ctorVars>>

TaskInit == MmdInit

TaskNext ==
    \/ TaskCallReadMmd
    \/ TaskCallWriteMmd
    \/ SyncReadStep
    \/ SyncWriteStep
    \/ TaskReadStep
    \/ TaskWriteStep
    \/ TaskComplete
    \/ TaskDrop
    \/ OtherPrimitive

SpecTasks == TaskInit /\ [][TaskNext]_vars

----------------------------------------------------------------------------
(* Vocabulary of the properties, written with plain arithmetic             *)

Rd(a, reg) == [op |-> "Read", phy_addr |-> a, reg |-> reg, val |-> 0]
Wr(a, reg, v) == [op |-> "Write", phy_addr |-> a, reg |-> reg, val |-> v]

\* Bit n of v.
Bit(v, n) == (v \div (2^n)) % 2

IsPrefix(s, t) == Len(s) <= Len(t) /\ s = SubSeq(t, 1, Len(s))

\* The four primitives a composite read / write is expected to issue for
\* the arguments of the current composite call.
ExpectedRead ==
    << Wr(args.phy_addr, 13, 0 + (args.reg.devad % 32)),
       Wr(args.phy_addr, 14, args.reg.regnum),
       Wr(args.phy_addr, 13, 49152 + (args.reg.devad % 32)),
       Rd(args.phy_addr, 14) >>

ExpectedWrite ==
    << Wr(args.phy_addr, 13, 0 + (args.reg.devad % 32)),
       Wr(args.phy_addr, 14, args.reg.regnum),
       Wr(args.phy_addr, 13, 16384 + (args.reg.devad % 32)),
       Wr(args.phy_addr, 14, args.reg_val) >>

Expected == IF args.kind = "smi_read_mmd" THEN ExpectedRead ELSE ExpectedWrite

AllSucceed == \A k \in 1..4 : script[k].ok
SomeFails == \E k \in 1..4 : ~script[k].ok
FirstFail == CHOOSE k \in 1..4 : ~script[k].ok /\ \A j \in 1..(k - 1) : script[j].ok

\* C1: on a bus whose primitives all succeed, the blocking composite read
\* issues exactly write(A, MMD_CONTROL, 0x0000 | (D & 0x1F)),
\* write(A, MMD_DATA, R), write(A, MMD_CONTROL, 0xC000 | (D & 0x1F)),
\* read(A, MMD_DATA), in this order, and returns the value returned by the
\* fourth.
C1_ReadSequence ==
    (call = "smi_read_mmd" /\ AllSucceed) =>
        /\ IsPrefix(log, ExpectedRead)
        /\ pc = "idle" => /\ log = ExpectedRead
                          /\ result.kind = "Ok"
                          /\ result.val = script[4].val

C1_Witness ==
    /\ call = "smi_read_mmd" /\ pc = "idle" /\ AllSucceed
    /\ args.reg.devad = 187
    /\ Len(log) = 4
    /\ result.val = 43981

\* C2: on a bus whose primitives all succeed, the blocking composite write
\* issues exactly write(A, MMD_CONTROL, 0x0000 | (D & 0x1F)),
\* write(A, MMD_DATA, R), write(A, MMD_CONTROL, 0x4000 | (D & 0x1F)),
\* write(A, MMD_DATA, V), in this order, and never a read.
C2_WriteSequence ==
    /\ (call = "smi_write_mmd" /\ AllSucceed) =>
          /\ IsPrefix(log, ExpectedWrite)
          /\ pc = "idle" => (log = ExpectedWrite /\ result.kind = "Ok")
    /\ call = "smi_write_mmd" => \A i \in 1..Len(log) : log[i].op = "Write"

C2_Witness ==
    /\ call = "smi_write_mmd" /\ pc = "idle" /\ AllSucceed
    /\ args.reg.devad = 187
    /\ args.reg_val = 52719
    /\ Len(log) = 4

\* C3: every word written to MMD_CONTROL by a composite read or write, in
\* either discipline, is opcode + (D mod 32) with opcode 0x0000, 0x4000 or
\* 0xC000: bits 5..13 are zero and the opcode bits are never 0b10 (0x8000).
ControlWordOk(e) ==
    (e.op = "Write" /\ e.reg = 13) =>
        /\ e.val \in {0 + (args.reg.devad % 32),
                      16384 + (args.reg.devad % 32),
                      49152 + (args.reg.devad % 32)}
        /\ \A n \in 5..13 : Bit(e.val, n) = 0
        /\ e.val \div 16384 # 2

C3_ControlWord ==
    call \in {"smi_read_mmd", "smi_write_mmd"} =>
        /\ \A i \in 1..Len(log) : ControlWordOk(log[i])
        /\ \A i \in 1..Len(alog) : ControlWordOk(alog[i])

C3_Witness ==
    /\ call = "smi_write_mmd"
    /\ args.reg.devad = 187
    /\ Len(log) >= 3 /\ log[3].val = 16384 + 27
    /\ Len(alog) >= 3 /\ alog[3].val = 16384 + 27

\* C4: if primitive k of a composite read or write fails with bus error e,
\* the composite returns Err(e), exactly the first k expected primitives
\* have been issued and nothing else (no retry, nothing after the failure,
\* no compensating operation), in either discipline.
C4_AbortOnError ==
    (call \in {"smi_read_mmd", "smi_write_mmd"} /\ SomeFails) =>
        LET k == FirstFail IN
        /\ Len(log) <= k /\ IsPrefix(log, Expected)
        /\ pc = "idle" => (Len(log) = k /\ result = Err(script[k].err))
        /\ Len(alog) <= k /\ IsPrefix(alog, Expected)
        /\ apc = "idle" => (Len(alog) = k /\ aresult = Err(script[k].err))

C4_Witness ==
    /\ call = "smi_write_mmd" /\ pc = "idle" /\ apc = "idle"
    /\ script[1].ok /\ script[2].ok /\ ~script[3].ok /\ ~script[4].ok
    /\ script[3].err = "E2" /\ script[4].err = "E1"
    /\ result = Err("E2")
    /\ Len(log) = 3

\* C5: for the same arguments and the same per-primitive bus responses the
\* blocking and the suspending composite operation issue the same sequence
\* of primitives and return the same result or error.
C5_Equivalence ==
    call \in {"smi_read_mmd", "smi_write_mmd"} =>
        /\ \A i \in 1..Len(log) : i <= Len(alog) => log[i] = alog[i]
        /\ (pc = "idle" /\ apc = "idle") => (log = alog /\ result = aresult)

C5_Witness ==
    /\ call = "smi_read_mmd" /\ pc = "idle" /\ apc = "idle"
    /\ Len(log) = 4 /\ Len(alog) = 4
    /\ result.kind = "Ok" /\ aresult.kind = "Ok" /\ aresult.val = 32768

----------------------------------------------------------------------------
(* Properties of GenericPhy::phy_reset and of the stored address           *)

\* The record of a discovery that has finished candidates 0..a-1 without
\* success (one write and ten reads each) and has issued the write and j
\* reads at candidate a.
RECURSIVE ScanLog(_, _)
ScanLog(a, j) ==
    (IF a = 0 THEN <<>> ELSE ScanLog(a - 1, 10))
        \o <<Wr(a, 0, 32768)>> \o [i \in 1..j |-> Rd(a, 0)]

CountOps(l, kind) == Cardinality({i \in 1..Len(l) : l[i].op = kind})

\* C6: in discovery, the read that first shows the reset bit (bit 15) clear
\* makes phy_reset adopt the candidate it was issued at and return Ok at
\* once; every earlier read of the call showed the bit set, candidates were
\* tried in ascending order from 0, and nothing was issued above the adopted
\* address.  No other read ends discovery with Ok.
C6_Step ==
    (pc = "scan_read" /\ last'.ok) =>
        IF Bit(last'.val, 15) = 0
        THEN /\ phy_addr' = addr
             /\ pc' = "idle"
             /\ result'.kind = "Ok"
             /\ cleared = {}
             /\ cleared' = {addr}
             /\ attempt + 1 <= 10
             /\ log' = ScanLog(addr, attempt + 1)
             /\ \A i \in 1..Len(log') : log'[i].phy_addr <= addr
        ELSE /\ result'.kind # "Ok"
             /\ phy_addr' = 255

C6_Discovery == [][C6_Step]_vars

C6_Witness ==
    /\ call = "phy_reset" /\ pc = "idle" /\ result.kind = "Ok"
    /\ phy_addr = 7
    /\ cleared = {7}
    /\ log = ScanLog(7, 3)

\* C7: discovery on a bus that never errors and always shows the reset bit
\* set ends in the panic outcome after exactly 32 reset writes and 320 BMCR
\* reads, ten at each address 0..31 in ascending order; Ok needs a read with
\* the bit clear and Err needs a failed primitive.
C7_Exhausted ==
    /\ result.kind = "panic" =>
          /\ pc = "panicked" /\ call = "phy_reset"
          /\ phy_addr = 255
          /\ cleared = {} /\ last.ok
          /\ log = ScanLog(31, 10)
          /\ CountOps(log, "Write") = 32
          /\ CountOps(log, "Read") = 320
    /\ pc \in {"scan_write", "scan_read"} =>
          /\ cleared = {} /\ last.ok /\ result.kind = "none"
          /\ addr \in 0..31 /\ attempt \in 0..9
          /\ log = IF pc = "scan_read" THEN ScanLog(addr, attempt)
                   ELSE IF addr = 0 THEN <<>> ELSE ScanLog(addr - 1, 10)
    /\ (call = "phy_reset" /\ result.kind = "Ok") => cleared # {}
    /\ (call = "phy_reset" /\ result.kind = "Err") => ~last.ok

C7_Witness ==
    /\ pc = "panicked" /\ result.kind = "panic"
    /\ Len(log) = 352
    /\ log[352] = Rd(31, 0)

\* C8: in discovery, a primitive (the reset write or a BMCR read) that fails
\* with bus error e at candidate a makes phy_reset return Err(e) at once:
\* the failed primitive is the last one issued, nothing was issued above a,
\* and the address stays unknown.
C8_Step ==
    (pc \in {"scan_write", "scan_read"} /\ ~last'.ok) =>
        /\ pc' = "idle"
        /\ result' = Err(last'.err)
        /\ last'.err \in BusErrors
        /\ phy_addr' = 255
        /\ addr' = addr
        /\ log' = Append(log, IF pc = "scan_write" THEN Wr(addr, 0, 32768)
                                                   ELSE Rd(addr, 0))
        /\ \A i \in 1..Len(log') : log'[i].phy_addr <= addr

C8_DiscoveryError == [][C8_Step]_vars

C8_Witness ==
    /\ call = "phy_reset" /\ pc = "idle"
    /\ result = Err("E2")
    /\ phy_addr = 255
    /\ log = ScanLog(1, 0)

\* C9: the stored address is 0xFF or a value in 0..31; it changes only
\* inside phy_reset, only from 0xFF, only to a value in 0..31.
C9_Change ==
    phy_addr' # phy_addr =>
        /\ phy_addr = 255
        /\ phy_addr' \in 0..31
        /\ call = "phy_reset"
        /\ pc = "scan_read"

C9_Address == [](phy_addr \in {255} \cup 0..31) /\ [][C9_Change]_vars

C9_Witness ==
    /\ call = "phy_reset" /\ pc = "idle" /\ result.kind = "Ok"
    /\ phy_addr = 31
    /\ log = ScanLog(31, 10)

\* C10: every primitive the controller issues carries a bus address in
\* 0..31; the sentinel 0xFF never reaches a primitive read or write.
C10_BusAddress ==
    \A i \in 1..Len(log) : log[i].phy_addr \in 0..31

----------------------------------------------------------------------------
(* Properties of GenericPhy::poll_link                                     *)

\* The BMSR read of the current poll_link call has returned a value, which
\* is held in bmsr.
BmsrRead == call = "poll_link" /\ Len(log) >= 1 /\ (Len(log) >= 2 \/ last.ok)

\* C11: when the BMSR value read by poll_link has the auto-negotiation-
\* complete bit (bit 5) clear, poll_link returns Down after exactly one
\* primitive read (BMSR) and reads neither ADVERTISE nor LPA, whatever the
\* link-up bit is.
C11_NoNegotiation ==
    (BmsrRead /\ Bit(bmsr, 5) = 0) =>
        /\ pc = "idle"
        /\ result.kind = "Ok"
        /\ ~result.link.up /\ result.link.duplex = "Down"
        /\ log = <<Rd(phy_addr, 1)>>

C11_Witness ==
    /\ BmsrRead /\ pc = "idle"
    /\ bmsr = 4
    /\ result.link.duplex = "Down"
    /\ Len(log) = 1

\* C12: a poll_link that returns Ok returns Up exactly when the BMSR value
\* it read has both bit 5 (negotiation complete) and bit 2 (link up) set,
\* and Down otherwise, whatever ADVERTISE and LPA hold.
C12_UpIffBothBits ==
    (call = "poll_link" /\ pc = "idle" /\ result.kind = "Ok") =>
        /\ result.link.up <=> (Bit(bmsr, 5) = 1 /\ Bit(bmsr, 2) = 1)
        /\ ~result.link.up => result.link = [up |-> FALSE, speed |-> 0,
                                             duplex |-> "Down"]
        /\ result.link.up => result.link.duplex \in {"Full", "Half"}

C12_Witness ==
    /\ call = "poll_link" /\ pc = "idle" /\ result.kind = "Ok"
    /\ bmsr = 36
    /\ result.link.up
    /\ advertising = 0 /\ last.val = 0

\* Both ADVERTISE (advertising) and LPA (the last value read) have bit n.
Shared(n) == Bit(advertising, n) = 1 /\ Bit(last.val, n) = 1

\* C13: an Up result is decided by the first set bit of ADVERTISE & LPA in
\* the order 0x0100 -> Up{100, Full}, 0x0080 -> Up{100, Half},
\* 0x0040 -> Up{10, Full}, none -> Up{10, Half}; the speed is 10 or 100.
C13_Priority ==
    (call = "poll_link" /\ pc = "idle" /\ result.kind = "Ok" /\ result.link.up) =>
        /\ result.link =
              IF Shared(8) THEN [up |-> TRUE, speed |-> 100, duplex |-> "Full"]
              ELSE IF Shared(7) THEN [up |-> TRUE, speed |-> 100, duplex |-> "Half"]
              ELSE IF Shared(6) THEN [up |-> TRUE, speed |-> 10, duplex |-> "Full"]
              ELSE [up |-> TRUE, speed |-> 10, duplex |-> "Half"]
        /\ result.link.speed \in {10, 100}

C13_Witness ==
    /\ call = "poll_link" /\ pc = "idle" /\ result.kind = "Ok"
    /\ advertising = 384 /\ last.val = 384
    /\ result.link = [up |-> TRUE, speed |-> 100, duplex |-> "Full"]

----------------------------------------------------------------------------
(* Properties of the known-address path of GenericPhy::phy_reset           *)

\* The record of a known-address reset at a after j reads.
KnownLog(a, j) == <<Wr(a, 0, 32768)>> \o [i \in 1..j |-> Rd(a, 0)]

\* C14: with a known address a and no bus error, phy_reset issues one write
\* of 0x8000 to BMCR at a and then only BMCR reads at a; it returns Ok with
\* the first read whose bit 15 is clear and with no other read.
C14_Step ==
    /\ (pc = "reset_write" /\ last'.ok) =>
          /\ phy_addr \in 0..31
          /\ log' = KnownLog(phy_addr, 0)
          /\ pc' = "reset_poll"
          /\ result'.kind = "none"
    /\ (pc = "reset_poll" /\ last'.ok) =>
          /\ log' = KnownLog(phy_addr, Len(log))
          /\ cleared = {}
          /\ IF Bit(last'.val, 15) = 0
             THEN pc' = "idle" /\ result'.kind = "Ok" /\ cleared' = {phy_addr}
             ELSE pc' = "reset_poll" /\ result'.kind = "none" /\ cleared' = {}
    /\ pc \in {"reset_write", "reset_poll"} => phy_addr' = phy_addr

C14_KnownReset == [][C14_Step]_vars

C14_Witness ==
    /\ call = "phy_reset" /\ pc = "idle" /\ result.kind = "Ok"
    /\ phy_addr = 7
    /\ log = KnownLog(7, 2)
    /\ last.val = 12544

\* C15: the known-address wait ends only with a BMCR read that shows the
\* reset bit clear or with a failed primitive, which ends it at once with
\* that error; a successful read with the bit set is always followed by
\* another read, however many reads came before (no attempt limit, no
\* panic outcome).
C15_Step ==
    /\ pc = "reset_poll" =>
          /\ pc' # "reset_poll" <=> (~last'.ok \/ Bit(last'.val, 15) = 0)
          /\ pc' = "reset_poll" => log' = Append(log, Rd(phy_addr, 0))
    /\ (pc \in {"reset_write", "reset_poll"} /\ ~last'.ok) =>
          /\ pc' = "idle"
          /\ result' = Err(last'.err)
    /\ pc \in {"reset_write", "reset_poll"} =>
          /\ pc' \in {"reset_poll", "idle"}
          /\ result'.kind # "panic"
          /\ attempt' = 0 /\ delay_us' = 0

C15_UnboundedWait == [][C15_Step]_vars

C15_Witness ==
    /\ pc = "reset_poll"
    /\ Len(log) = MaxPolls /\ Len(log) > 11
    /\ log = KnownLog(phy_addr, Len(log) - 1)
    /\ last.val = 65535

----------------------------------------------------------------------------
(* Properties of GenericPhy::phy_init                                      *)

\* The five writes of phy_init at address a.
ExpectedInit(a) ==
    << Wr(a, 13, 3), Wr(a, 14, 32784), Wr(a, 13, 16387), Wr(a, 14, 0),
       Wr(a, 0, 12800) >>

\* C16: on a bus that never errors phy_init issues exactly MMD_CONTROL <-
\* 0x0003, MMD_DATA <- 0x8010, MMD_CONTROL <- 0x4003, MMD_DATA <- 0x0000,
\* BMCR <- 0x3200, in this order, and no read.
C16_InitSequence ==
    call = "phy_init" =>
        /\ IsPrefix(log, ExpectedInit(phy_addr))
        /\ \A i \in 1..Len(log) : log[i].op = "Write"
        /\ (pc = "idle" /\ result.kind = "Ok") => log = ExpectedInit(phy_addr)
        /\ (Len(log) = 5 /\ last.ok) => (pc = "idle" /\ result.kind = "Ok")

C16_Witness ==
    /\ call = "phy_init" /\ pc = "idle" /\ result.kind = "Ok"
    /\ phy_addr = 7
    /\ Len(log) = 5
    /\ log[5] = Wr(7, 0, 12800)

\* C17: a failure of any of the four writes of phy_init's composite write
\* returns Err(e) and the BMCR write is never issued; a failure of the BMCR
\* write returns Err(e); the failed write is the last one issued.
C17_InitError ==
    call = "phy_init" =>
        /\ ~last.ok =>
              /\ pc = "idle"
              /\ result = Err(last.err)
              /\ Len(log) \in 1..5
              /\ IsPrefix(log, ExpectedInit(phy_addr))
        /\ result.kind = "Err" => ~last.ok
        /\ \A i \in 1..Len(log) : log[i].reg = 0 => (i = 5 /\ i = Len(log))
        /\ pc = "init_bmcr" => (Len(log) = 4 /\ last.ok)

C17_Witness ==
    /\ call = "phy_init" /\ pc = "idle"
    /\ result = Err("E2")
    /\ Len(log) = 2

----------------------------------------------------------------------------
(* Error propagation and statelessness of the controller                   *)

PhyCalls == {"phy_reset", "phy_init", "poll_link"}

\* C18: whenever a controller operation returns Err(e), e is the error of
\* the last primitive issued; a failed primitive ends the operation at once
\* (nothing is issued after it, it is not issued again); the only outcome
\* that is neither Ok nor a propagated bus error is the panic of a
\* discovery that exhausted all 32 candidates.
C18_Step ==
    call' \in PhyCalls =>
        /\ ~last'.ok =>
              /\ pc' = "idle"
              /\ result' = Err(last'.err)
              /\ last'.err \in BusErrors
              /\ last.ok
              /\ Len(log') = Len(log) + 1
        /\ result'.kind = "Err" => (~last'.ok /\ result'.err = last'.err)
        /\ (pc' = "idle" /\ result'.kind = "Ok") => last'.ok
        /\ pc' = "idle" => result'.kind \in {"Ok", "Err"}
        /\ pc' # "idle" => result'.kind \in {"none", "panic"}
        /\ result'.kind = "panic" =>
              (call' = "phy_reset" /\ pc' = "panicked" /\ last'.ok
               /\ Len(log') = 32 + 320 /\ cleared' = {})

C18_ErrorPropagation == [][C18_Step]_vars

C18_Witness ==
    /\ call = "poll_link" /\ pc = "idle"
    /\ result = Err("E2")
    /\ log = <<Rd(phy_addr, 1), Rd(phy_addr, 4)>>

\* The LinkStatus poll_link computes from the three register values.
LinkOf(s, a, l) ==
    IF Bit(s, 5) = 0 \/ Bit(s, 2) = 0
    THEN [up |-> FALSE, speed |-> 0, duplex |-> "Down"]
    ELSE IF Bit(a, 8) = 1 /\ Bit(l, 8) = 1
    THEN [up |-> TRUE, speed |-> 100, duplex |-> "Full"]
    ELSE IF Bit(a, 7) = 1 /\ Bit(l, 7) = 1
    THEN [up |-> TRUE, speed |-> 100, duplex |-> "Half"]
    ELSE IF Bit(a, 6) = 1 /\ Bit(l, 6) = 1
    THEN [up |-> TRUE, speed |-> 10, duplex |-> "Full"]
    ELSE [up |-> TRUE, speed |-> 10, duplex |-> "Half"]

\* C19: the result of poll_link is a function of the BMSR, ADVERTISE and
\* LPA values read during that call alone, whatever calls came before, and
\* every step of poll_link leaves the stored address and the poll interval
\* unchanged.
C19_Step ==
    call' = "poll_link" =>
        /\ phy_addr' = phy_addr
        /\ poll_interval' = poll_interval
        /\ (pc' = "idle" /\ result'.kind = "Ok") =>
              result'.link = LinkOf(bmsr', advertising', last'.val)

C19_NoMemory == [][C19_Step]_vars

C19_Witness ==
    /\ call = "poll_link" /\ pc = "idle" /\ result.kind = "Ok"
    /\ phy_addr = 7 /\ poll_interval = 20
    /\ bmsr = 30765 /\ advertising = 481 /\ last.val = 128
    /\ result.link = [up |-> TRUE, speed |-> 100, duplex |-> "Half"]

----------------------------------------------------------------------------
(* Exclusive use of the suspending bus                                     *)

\* Positions in the bus history of the primitives of composite call n.
CallIdx(n) == {i \in 1..Len(hist) : hist[i].call = n}

\* C20: on the suspending bus the primitives of one composite operation are
\* contiguous in the bus history: the second task issues nothing between
\* the first and the last primitive of a composite operation, so a
\* composite operation that issues its fourth primitive issues it right
\* after its own three selecting writes.
C20_Contiguous ==
    /\ \A n \in 1..ncalls :
          \A i \in CallIdx(n), j \in CallIdx(n) :
              \A m \in i..j : hist[m].task = "composite" /\ hist[m].call = n
    /\ (ncalls > 0 /\ Len(alog) > 0) =>
          LET f == CHOOSE i \in CallIdx(ncalls) :
                       \A j \in CallIdx(ncalls) : i <= j IN
          /\ f + Len(alog) - 1 <= Len(hist)
          /\ \A k \in 1..Len(alog) : hist[f + k - 1].op = alog[k]
          /\ IsPrefix(alog, Expected)
    /\ apc = "mmd" => borrower = "composite"

C20_Witness ==
    /\ Len(hist) = 6
    /\ hist[1].task = "other"
    /\ hist[2].task = "composite" /\ hist[5].task = "composite"
    /\ hist[5].op = Rd(1, 14)
    /\ hist[6].task = "other"
    /\ aresult.kind = "Ok"

----------------------------------------------------------------------------
(* Constructors                                                            *)

\* C21: vendor_specific::<N>() yields the register C22(N) exactly when
\* 16 <= N <= 31, fails its assertion for every other N of 0..255, and every
\* register it yields is below 32.
C21_VendorRange ==
    ctor_in.fn = "vendor_specific" =>
        /\ ctor_in.n \in 16..31 <=> ctor_out.kind = "C22"
        /\ ctor_in.n \notin 16..31 <=> ctor_out.kind = "panic"
        /\ ctor_out.kind = "C22" => ctor_out.reg = ctor_in.n /\ ctor_out.reg < 32

C21_Witness ==
    /\ ctor_in = [fn |-> "vendor_specific", n |-> 31]
    /\ ctor_out.kind = "C22"
    /\ ctor_out.reg = 31

\* C22: new(a) stores a with the 500 ms default exactly when a < 32 and
\* panics for every a >= 32, 0xFF included; only new_auto() yields the
\* address 0xFF, also with the 500 ms default.
C22_Constructors ==
    /\ ctor_in.fn = "new" =>
          /\ ctor_in.n < 32 <=> ctor_out.kind = "GenericPhy"
          /\ ctor_in.n >= 32 <=> ctor_out.kind = "panic"
          /\ ctor_out.kind = "GenericPhy" =>
                ctor_out.phy_addr = ctor_in.n /\ ctor_out.poll_interval = 500
    /\ ctor_in.fn = "new_auto" =>
          /\ ctor_out.kind = "GenericPhy"
          /\ ctor_out.phy_addr = 255
          /\ ctor_out.poll_interval = 500
    /\ (ctor_out.kind = "GenericPhy" /\ ctor_out.phy_addr = 255) =>
          ctor_in.fn = "new_auto"

C22_Witness ==
    /\ ctor_in = [fn |-> "new", n |-> 255]
    /\ ctor_out.kind = "panic"

----------------------------------------------------------------------------
(* Discovery: pacing and bound                                             *)

\* C23: in discovery every candidate gets one reset write followed by at most
\* ten BMCR reads, every read showing the bit set is followed by one 10 ms
\* delay, a candidate that never clears costs ten reads and 100 ms before the
\* next candidate, which is address + 1, and candidates run 0, 1, 2, ..
\* with none skipped or repeated.
C23_Pacing ==
    /\ pc = "scan_read" =>
          /\ addr \in 0..31 /\ attempt \in 0..9
          /\ log = ScanLog(addr, attempt)
          /\ delay_us = 10000 * (10 * addr + attempt)
    /\ pc = "scan_write" =>
          /\ addr \in 0..31 /\ attempt = 0
          /\ log = IF addr = 0 THEN <<>> ELSE ScanLog(addr - 1, 10)
          /\ delay_us = 100000 * addr
    /\ pc = "panicked" =>
          /\ log = ScanLog(31, 10)
          /\ delay_us = 100000 * 32

C23_Witness ==
    /\ pc = "scan_write"
    /\ addr = 4
    /\ log = ScanLog(3, 10)
    /\ delay_us = 400000

\* A step of discovery leaves at most 32 writes and 320 reads issued.
C24_Step ==
    pc \in {"scan_write", "scan_read"} =>
        CountOps(log', "Write") <= 32 /\ CountOps(log', "Read") <= 320

\* C24: whatever the bus returns, discovery ends (Ok, Err or panic), and it
\* never issues more than 32 reset writes and 320 BMCR reads.
C24_Terminates ==
    /\ [][C24_Step]_vars
    /\ (pc \in {"scan_write", "scan_read"}) ~>
          (\/ pc = "idle" /\ result.kind \in {"Ok", "Err"}
           \/ pc = "panicked" /\ result.kind = "panic")

C24_Witness ==
    /\ pc = "scan_read"
    /\ CountOps(log, "Write") = 32
    /\ CountOps(log, "Read") = 319

----------------------------------------------------------------------------
(* poll_link: shared capability, pacing, bus traffic                       *)

\* C25: a priority bit (0x0100, 0x0080, 0x0040) set in only one of ADVERTISE
\* and LPA never determines the result: a 100 Mbit or full-duplex result
\* needs its bit in both registers, and ADVERTISE = 0x0100 with LPA = 0x0040
\* gives Up{10, Half}.
C25_SharedOnly ==
    (call = "poll_link" /\ pc = "idle" /\ result.kind = "Ok" /\ result.link.up) =>
        /\ (result.link.speed = 100 /\ result.link.duplex = "Full") =>
              (Bit(advertising, 8) = 1 /\ Bit(last.val, 8) = 1)
        /\ (result.link.speed = 100 /\ result.link.duplex = "Half") =>
              (Bit(advertising, 7) = 1 /\ Bit(last.val, 7) = 1)
        /\ (result.link.speed = 10 /\ result.link.duplex = "Full") =>
              (Bit(advertising, 6) = 1 /\ Bit(last.val, 6) = 1)
        /\ (\A n \in {6, 7, 8} : Bit(advertising, n) = 0 \/ Bit(last.val, n) = 0) =>
              (result.link.speed = 10 /\ result.link.duplex = "Half")

C25_Witness ==
    /\ call = "poll_link" /\ pc = "idle" /\ result.kind = "Ok"
    /\ advertising = 256 /\ last.val = 64
    /\ result.link = [up |-> TRUE, speed |-> 10, duplex |-> "Half"]

----------------------------------------------------------------------------
(* Sequencing and cancellation of the composite operations                 *)

\* A primitive is issued only when none is in flight and the one before it
\* has completed successfully; a blocking primitive returns in its own step.
C26_Step ==
    /\ Len(alog') > Len(alog) =>
          /\ pending = 0 /\ pending' = 1
          /\ Len(alog') = Len(alog) + 1
          /\ Len(alog) > 0 => (alast = script[Len(alog)] /\ alast.ok)
    /\ Len(log') > Len(log) =>
          /\ Len(log') = Len(log) + 1
          /\ last' = script[Len(log')]
          /\ Len(log) > 0 => last.ok

\* C26: at most one primitive is outstanding at any time; step k+1 of a
\* composite operation is issued only after step k has completed with a
\* result, in the blocking and in the suspending discipline.
C26_Sequential ==
    /\ [](pending \in {0, 1} /\ (pending = 1 <=> apc = "await"))
    /\ [][C26_Step]_vars

C26_Witness ==
    /\ pending = 1
    /\ Len(alog) = 4
    /\ alast.ok
    /\ Len(log) = 2

\* C27: once its first primitive is issued, a composite operation ends with
\* all four primitives issued or with a primitive failure; it never stops
\* after one, two or three successful primitives without an error, in the
\* blocking and in the suspending discipline.
C27_NoCancellation ==
    /\ (pc = "idle" /\ Len(log) \in 1..3) => (result.kind = "Err" /\ ~last.ok)
    /\ (apc = "idle" /\ Len(alog) \in 1..3) => (aresult.kind = "Err" /\ ~alast.ok)

\* C27, amended: the blocking composite operation ends with all four
\* primitives issued or with a primitive failure.  The suspending one does
\* so whenever its future is polled to completion; a future dropped at the
\* `.await` of a primitive stops there, with one to four primitives issued,
\* the earlier ones successful, and no error reported.
C27_EndsOrDropped ==
    /\ (pc = "idle" /\ Len(log) \in 1..3) => (result.kind = "Err" /\ ~last.ok)
    /\ (pc = "idle" /\ Len(log) = 4) => result.kind \in {"Ok", "Err"}
    /\ (apc = "idle" /\ Len(alog) \in 1..3) =>
          \/ aresult.kind = "Err" /\ ~alast.ok
          \/ aresult.kind = "dropped" /\ alast.ok /\ a_k = Len(alog)
    /\ (apc = "idle" /\ Len(alog) = 4) => aresult.kind \in {"Ok", "Err", "dropped"}
    /\ aresult.kind = "dropped" => (apc = "idle" /\ borrower = "none" /\ pending = 0)

C27_Witness ==
    /\ apc = "idle" /\ aresult.kind = "dropped" /\ Len(alog) = 2
    /\ pc = "idle" /\ result.kind = "Ok" /\ Len(log) = 4

\* C28: poll_link waits inside the call for the configured poll interval
\* (in ms) before it reads BMSR, so that successive BMSR reads are at least
\* one poll interval apart.
C28_PacedInside ==
    (call = "poll_link" /\ Len(log) >= 1) => delay_us >= 1000 * poll_interval

\* Entering poll_link polls a timer of the stored interval; neither that
\* nor the BMSR read that follows waits.
C28_Step ==
    /\ (pc = "idle" /\ pc' = "poll_bmsr") =>
          /\ timer' = poll_interval
          /\ poll_interval' = poll_interval
          /\ delay_us' = 0
    /\ pc = "poll_bmsr" =>
          /\ log' = <<Rd(phy_addr, 1)>>
          /\ timer' = timer
          /\ delay_us' = 0
    /\ (pc = "idle" /\ call' = "set_poll_interval") =>
          (poll_interval' \in {20, 500} /\ log' = <<>>)

\* C28, amended: poll_link does not wait inside the call.  It polls once a
\* timer of the configured poll interval (500 ms by default, or the value
\* last given to set_poll_interval), which only arranges a later wake-up
\* of the calling task, and reads BMSR in the same call without delay.
C28_TimerArmed ==
    /\ [](call = "poll_link" =>
             /\ timer = poll_interval
             /\ timer \in {20, 500}
             /\ delay_us = 0)
    /\ [](call = "none" => poll_interval = 500)
    /\ [][C28_Step]_vars

C28_Witness ==
    /\ call = "poll_link" /\ pc = "idle"
    /\ Len(log) = 3
    /\ timer = 20
    /\ delay_us = 0

\* C29: poll_link issues reads only: BMSR alone, or BMSR, ADVERTISE, LPA in
\* this order, all at the stored address; a successful call has issued one
\* or three reads, a failed BMSR read ends the call after one read, a
\* failed ADVERTISE read after two.
C29_ReadsOnly ==
    call = "poll_link" =>
        /\ IsPrefix(log, <<Rd(phy_addr, 1), Rd(phy_addr, 4), Rd(phy_addr, 5)>>)
        /\ \A i \in 1..Len(log) : log[i].op = "Read"
        /\ (pc = "idle" /\ result.kind = "Ok") => Len(log) \in {1, 3}
        /\ (pc = "idle" /\ Len(log) = 2) => (~last.ok /\ result.kind = "Err")
        /\ (Len(log) >= 1 /\ ~last.ok) => (pc = "idle" /\ result.kind = "Err")
        /\ pc = "poll_advertise" => (Len(log) = 1 /\ last.ok)
        /\ pc = "poll_lpa" => (Len(log) = 2 /\ last.ok)

C29_Witness ==
    /\ call = "poll_link" /\ pc = "idle"
    /\ Len(log) = 2
    /\ result.kind = "Err"
    /\ phy_addr = 31

----------------------------------------------------------------------------
(* Discovery: cost of a successful scan                                    *)

\* The read that resolves discovery at address a as its j-th read at a.
C30_Step ==
    (pc = "scan_read" /\ last'.ok /\ Bit(last'.val, 15) = 0) =>
        LET a == phy_addr'
            j == attempt + 1
            W == {i \in 1..Len(log') : log'[i].op = "Write"} IN
        /\ result'.kind = "Ok"
        /\ a \in 0..31 /\ j \in 1..10
        /\ Cardinality(W) = a + 1
        /\ \A b \in 0..a :
              Cardinality({i \in W : log'[i] = Wr(b, 0, 32768)}) = 1
        /\ \A i \in W, k \in W : i < k => log'[i].phy_addr < log'[k].phy_addr
        /\ Cardinality({i \in 1..Len(log') : log'[i].op = "Read"}) = 10 * a + j
        /\ \A i \in 1..Len(log') : log'[i].op = "Read" => log'[i].reg = 0

\* C30: a discovery that resolves address a at its j-th read there has
\* issued a+1 reset writes, one to each address 0..a in ascending order,
\* and 10*a + j BMCR reads.
C30_ScanCost == [][C30_Step]_vars

C30_Witness ==
    /\ call = "phy_reset" /\ pc = "idle" /\ result.kind = "Ok"
    /\ phy_addr = 2
    /\ attempt = 9
    /\ CountOps(log, "Write") = 3
    /\ CountOps(log, "Read") = 30

----------------------------------------------------------------------------
(* phy_reset after an earlier phy_reset                                    *)

\* With an address a in 0..31 stored, phy_reset goes to the known-address
\* path, issues primitives at a only, keeps a, and a read showing the reset
\* bit set is followed by another read, never by a new candidate or a panic.
C31_Step ==
    /\ phy_addr \in 0..31 => phy_addr' = phy_addr
    /\ (pc = "idle" /\ phy_addr \in 0..31 /\ call' = "phy_reset") =>
          (pc' = "reset_write" /\ log' = <<>>)
    /\ (call' = "phy_reset" /\ phy_addr \in 0..31) =>
          /\ pc' \in {"reset_write", "reset_poll", "idle"}
          /\ result'.kind # "panic"
          /\ \A i \in 1..Len(log') : log'[i].phy_addr = phy_addr
          /\ delay_us' = 0
    /\ (pc = "reset_poll" /\ last'.ok /\ Bit(last'.val, 15) = 1) =>
          (pc' = "reset_poll" /\ result'.kind = "none")

\* C31: once a phy_reset has resolved the address to a, every later
\* phy_reset takes the known-address path: it issues primitives only at a,
\* scans no other address, and waits without the 10-read limit and without
\* the panic outcome.
C31_KnownAfterDiscovery == [][C31_Step]_vars

C31_Witness ==
    /\ call = "phy_reset" /\ pc = "reset_poll"
    /\ phy_addr = 5
    /\ log = KnownLog(5, 11)

\* A discovery that ends with an error or the panic leaves the address at
\* 0xFF; the phy_reset called after a failed discovery enters discovery at
\* candidate 0 with nothing issued, and its first primitive is the reset
\* write at address 0.
C32_Step ==
    /\ (pc \in {"scan_write", "scan_read"} /\ result'.kind \in {"Err", "panic"}) =>
          (phy_addr = 255 /\ phy_addr' = 255)
    /\ (/\ pc = "idle" /\ call = "phy_reset" /\ result.kind = "Err"
        /\ phy_addr = 255 /\ call' = "phy_reset") =>
          /\ retry'
          /\ pc' = "scan_write"
          /\ addr' = 0 /\ attempt' = 0
          /\ log' = <<>>
    /\ (retry /\ pc = "scan_write" /\ log = <<>>) =>
          log' = <<Wr(0, 0, 32768)>>

\* C32: when discovery ends without success the stored address is still
\* 0xFF, and the next phy_reset runs discovery again from address 0, not
\* from the candidate at which the failed attempt stopped.
C32_RestartFromZero ==
    /\ [](pc = "panicked" => phy_addr = 255)
    /\ []((retry /\ log # <<>>) =>
             (log[1] = Wr(0, 0, 32768) /\ cleared \subseteq {phy_addr}))
    /\ [](retry => call = "phy_reset")
    /\ [][C32_Step]_vars

C32_Witness ==
    /\ retry
    /\ call = "phy_reset" /\ pc = "idle" /\ result.kind = "Ok"
    /\ phy_addr = 2
    /\ log = ScanLog(2, 1)

----------------------------------------------------------------------------
(* Frame of the composite operations                                       *)

\* Primitive i of a composite operation is at phy address a and accesses
\* MMD_CONTROL (13) when i is odd, MMD_DATA (14) when i is even.
FrameOk(l, a) ==
    /\ Len(l) <= 4
    /\ \A i \in 1..Len(l) :
          /\ l[i].phy_addr = a
          /\ l[i].reg = IF i % 2 = 1 THEN 13 ELSE 14
          /\ l[i].reg \in {13, 14}

\* C33: all primitives of a composite read or write, blocking or
\* suspending, carry the caller's phy address unchanged and access only
\* MMD_CONTROL and MMD_DATA, alternating control, data, control, data.
C33_Frame ==
    call \in {"smi_read_mmd", "smi_write_mmd"} =>
        (FrameOk(log, args.phy_addr) /\ FrameOk(alog, args.phy_addr))

C33_Witness ==
    /\ call = "smi_read_mmd"
    /\ args.phy_addr = 31
    /\ Len(log) = 4 /\ Len(alog) = 4
    /\ log[4].phy_addr = 31 /\ log[4].reg = 14
    /\ alog[3].phy_addr = 31 /\ alog[3].reg = 13

====
